---------------------------- MODULE Spec2Model ----------------------------
(***************************************************************************)
(* A model of the awwwards-jobs-api scraping pipeline (src/app/scraper.py) *)
(* and of the two routes that drive it (src/app/routes.py).                *)
(*                                                                         *)
(* Conventions.                                                            *)
(*   - A Python str is a sequence of one-character strings, so that the    *)
(*     regular expressions and the concatenations of the code are          *)
(*     computed character by character.                                    *)
(*   - An Optional value is a sequence of length at most one: None is      *)
(*     <<>> and a present value x is <<x>>.  None and the empty str are    *)
(*     therefore different values (<<>> and << <<>> >>).                   *)
(*   - A JSON value is a record with a tag field t (see the detail page    *)
(*     section).                                                           *)
(***************************************************************************)
EXTENDS Integers, Sequences, FiniteSets, TLC

VARIABLES
    concurrency,  \* AwwwardsScraper.__init__: the permit count of self._sem
    sem,          \* self._sem: the number of free permits
    route,        \* the request being served
    pc,           \* the position of the request's handler
    page,         \* the page query parameter of GET /jobs
    call,         \* the _get_text calls: 0 is the request's own fetch, i > 0 the fetch of job i
    html,         \* list_page: the listing body fetched
    meta,         \* list_page: the page meta computed from it
    job_urls,     \* list_with_details: _extract_job_urls_from_list(html)
    results,      \* asyncio.gather(..., return_exceptions=True): one slot per job
    returned,     \* what list_with_details (or job_details, for GET /jobs/{id}) gave the route
    response      \* the HTTP response of the route

vars == <<concurrency, sem, route, pc, page, call, html, meta, job_urls,
          results, returned, response>>

-----------------------------------------------------------------------------
(* Bounds of the model *)

MaxJobs == 3        \* job URLs on a listing page of the batch model
MaxAnchors == 3     \* anchors of a listing page drawn for the listing parser
MaxRecords == 3     \* records sorted by the sort model
MaxPage == 2        \* the page parameter drawn for the listing parser

-----------------------------------------------------------------------------
(* Optional values and str helpers *)

None == <<>>
Some(x) == <<x>>
IsNone(o) == o = <<>>
Val(o) == o[1]

EmptyStr == <<>>

StartsWith(s, p) == Len(s) >= Len(p) /\ SubSeq(s, 1, Len(p)) = p

\* s[i..] starts with p
MatchAt(s, i, p) ==
    /\ i >= 1
    /\ i + Len(p) - 1 <= Len(s)
    /\ SubSeq(s, i, i + Len(p) - 1) = p

Contains(s, p) == \E i \in 1..(Len(s) + 1) : MatchAt(s, i, p)

\* Python's \s and str.strip(): the whitespace characters of the model
WS == {" ", "\n", "\t"}

RECURSIVE LStrip(_)
LStrip(s) == IF s # <<>> /\ Head(s) \in WS THEN LStrip(Tail(s)) ELSE s

RECURSIVE RStrip(_)
RStrip(s) ==
    IF s # <<>> /\ s[Len(s)] \in WS THEN RStrip(SubSeq(s, 1, Len(s) - 1)) ELSE s

\* str.strip()
Strip(s) == RStrip(LStrip(s))

UpperLetters == <<"A","B","C","D","E","F","G","H","I","J","K","L","M","N","O","P","Q","R","S","T","U","V","W","X","Y","Z">>
LowerLetters == <<"a","b","c","d","e","f","g","h","i","j","k","l","m","n","o","p","q","r","s","t","u","v","w","x","y","z">>

LowerChar(c) ==
    IF \E i \in 1..26 : UpperLetters[i] = c
    THEN LowerLetters[CHOOSE i \in 1..26 : UpperLetters[i] = c]
    ELSE c

UpperChar(c) ==
    IF \E i \in 1..26 : LowerLetters[i] = c
    THEN UpperLetters[CHOOSE i \in 1..26 : LowerLetters[i] = c]
    ELSE c

\* str.lower(), and the re.I flag applied to a literal
Lower(s) == [i \in 1..Len(s) |-> LowerChar(s[i])]
\* str.upper()
Upper(s) == [i \in 1..Len(s) |-> UpperChar(s[i])]

Digits == <<"0","1","2","3","4","5","6","7","8","9">>
IsDigit(c) == \E i \in 1..10 : Digits[i] = c
DigitVal(c) == (CHOOSE i \in 1..10 : Digits[i] = c) - 1

\* int(s) of a str of decimal digits
RECURSIVE ParseInt(_)
ParseInt(s) ==
    IF s = <<>> THEN 0
    ELSE 10 * ParseInt(SubSeq(s, 1, Len(s) - 1)) + DigitVal(s[Len(s)])

\* f"{n}" of a natural number
RECURSIVE FormatInt(_)
FormatInt(n) ==
    IF n < 10 THEN <<Digits[n + 1]>>
    ELSE FormatInt(n \div 10) \o <<Digits[(n % 10) + 1]>>

\* the longest run of digits of s that starts at i (\d+, greedy); empty when there is none
RECURSIVE DigitRun(_, _)
DigitRun(s, i) ==
    IF i <= Len(s) /\ IsDigit(s[i]) THEN <<s[i]>> \o DigitRun(s, i + 1) ELSE <<>>

-----------------------------------------------------------------------------
(* URL resolver *)

SITE_ROOT == <<"h","t","t","p","s",":","/","/","w","w","w",".","a","w","w","w","a","r","d","s",".","c","o","m">>
JOBS_BASE == <<"h","t","t","p","s",":","/","/","w","w","w",".","a","w","w","w","a","r","d","s",".","c","o","m","/","j","o","b","s","/">>
\* settings.SOURCE_URL, and AwwwardsScraper.base_url built from it: rstrip("/") + "/"
SOURCE_URL == JOBS_BASE
base_url == SOURCE_URL

JobsSlash == <<"/","j","o","b","s","/">>
DotHtml == <<".","h","t","m","l">>
PageEq == <<"p","a","g","e","=">>

\* _full_url
FullUrl(href) ==
    IF StartsWith(href, <<"h","t","t","p">>) THEN href
    ELSE IF StartsWith(href, <<"/">>) THEN SITE_ROOT \o href
    ELSE JOBS_BASE \o href

NoneOf(s, from, to, chars) == \A k \in from..to : s[k] \notin chars

\* a match of /jobs/([^/?#]+)\.html with "/jobs/" at i and ".html" at j
SlugMatch(url, i, j) ==
    /\ MatchAt(url, i, JobsSlash)
    /\ j > i + 6
    /\ MatchAt(url, j, DotHtml)
    /\ NoneOf(url, i + 6, j - 1, {"/", "?", "#"})

RECURSIVE RStripSlash(_)
RStripSlash(s) ==
    IF s # <<>> /\ s[Len(s)] = "/" THEN RStripSlash(SubSeq(s, 1, Len(s) - 1)) ELSE s

\* s.split("/")[-1]
LastSegment(s) ==
    LET cuts == {k \in 1..Len(s) : s[k] = "/"}
        last == IF cuts = {} THEN 0 ELSE CHOOSE k \in cuts : \A m \in cuts : m <= k
    IN  SubSeq(s, last + 1, Len(s))

\* _slug_from_url: re.search takes the leftmost "/jobs/" that can match and the greedy
\* [^/?#]+ the longest segment the ".html" can follow
SlugFromUrl(url) ==
    LET starts == {i \in 1..Len(url) : \E j \in 1..Len(url) : SlugMatch(url, i, j)}
    IN  IF starts # {}
        THEN LET i == CHOOSE x \in starts : \A y \in starts : x <= y
                 ends == {j \in 1..Len(url) : SlugMatch(url, i, j)}
                 j == CHOOSE x \in ends : \A y \in ends : y <= x
             IN  SubSeq(url, i + 6, j - 1)
        ELSE LastSegment(RStripSlash(url))

-----------------------------------------------------------------------------
(* Listing parser.  A listing body is [anchors, texts]: its <a> elements in *)
(* document order, each [href: Optional str, text: str, rel: sequence of    *)
(* str], and its text nodes in document order.                              *)

NextWord == <<"n","e","x","t">>
JobOpportunities == <<"j","o","b"," ","o","p","p","o","r","t","u","n","i","t","i","e","s">>

\* re.search(r"/jobs/[^/]+\.html(\?.*)?$", href)
QualifiesAt(href, i, j) ==
    /\ MatchAt(href, i, JobsSlash)
    /\ j > i + 6
    /\ MatchAt(href, j, DotHtml)
    /\ NoneOf(href, i + 6, j - 1, {"/"})
    /\ \/ j + 5 = Len(href) + 1
       \/ /\ j + 5 <= Len(href)
          /\ href[j + 5] = "?"
          /\ NoneOf(href, j + 6, Len(href), {"\n"})

IsJobHref(href) ==
    \E i \in 1..Len(href) : \E j \in 1..Len(href) : QualifiesAt(href, i, j)

\* the first of the elements of seq at the indices hits, as an Optional: what find and
\* the first-match loops give
FirstAt(seq, hits) ==
    IF hits = {} THEN None
    ELSE Some(seq[CHOOSE k \in hits : \A m \in hits : k <= m])

\* soup.find("a", string=re.compile(r"^\s*Next\s*$", re.I))
IsNextText(a) == Lower(Strip(a.text)) = NextWord
\* soup.find("a", rel="next")
IsNextRel(a) == \E k \in 1..Len(a.rel) : a.rel[k] = NextWord

FindNextAnchor(body) ==
    LET byText == FirstAt(body.anchors, {k \in 1..Len(body.anchors) : IsNextText(body.anchors[k])})
    IN  IF ~IsNone(byText) THEN byText ELSE FirstAt(body.anchors, {k \in 1..Len(body.anchors) : IsNextRel(body.anchors[k])})

\* re.search(r"[?&]page=(\d+)", href): the leftmost match, its group 1 as an Optional
PageParamAt(href, i) ==
    /\ href[i] \in {"?", "&"}
    /\ MatchAt(href, i + 1, PageEq)
    /\ DigitRun(href, i + 6) # <<>>

SearchPageParam(href) ==
    LET hits == {i \in 1..Len(href) : PageParamAt(href, i)}
    IN  IF hits = {} THEN None
        ELSE Some(DigitRun(href, (CHOOSE i \in hits : \A m \in hits : i <= m) + 6))

\* a variant of NextPageLogic that guesses no page number when the link names none
NextPageLogicNoDefault(body, pg) ==
    LET next_a == FindNextAnchor(body)
    IN  IF ~IsNone(next_a) /\ ~IsNone(Val(next_a).href) /\ Val(Val(next_a).href) # EmptyStr
        THEN LET m == SearchPageParam(Val(Val(next_a).href))
             IN  [has_next |-> TRUE,
                  next_page |-> IF ~IsNone(m) THEN Some(ParseInt(Val(m))) ELSE None]
        ELSE [has_next |-> FALSE, next_page |-> None]

\* list_page, lines 59-67
NextPageLogic(body, pg) ==
    LET next_a == FindNextAnchor(body)
    IN  IF ~IsNone(next_a) /\ ~IsNone(Val(next_a).href) /\ Val(Val(next_a).href) # EmptyStr
        THEN LET m == SearchPageParam(Val(Val(next_a).href))
             IN  [has_next |-> TRUE,
                  next_page |-> IF ~IsNone(m) THEN Some(ParseInt(Val(m))) ELSE Some(pg + 1)]
        ELSE [has_next |-> FALSE, next_page |-> None]

\* list_page, lines 69-73
IsTotalText(t) == Contains(Lower(t), JobOpportunities)
TotalText(body) ==
    LET total_el == FirstAt(body.texts, {k \in 1..Len(body.texts) : IsTotalText(body.texts[k])})
    IN  IF ~IsNone(total_el) THEN Some(Strip(Val(total_el))) ELSE None

\* list_page, lines 57-80: the meta of a fetched listing body
PageMeta(body, pg) ==
    LET np == NextPageLogic(body, pg)
    IN  [has_next |-> np.has_next, next_page |-> np.next_page, total_text |-> TotalText(body)]

\* list_page, line 53
ListingUrl(pg) ==
    IF pg = 1 THEN base_url ELSE base_url \o <<"?">> \o PageEq \o FormatInt(pg)

\* _extract_job_urls_from_list, lines 84-90
RECURSIVE CollectUrls(_)
CollectUrls(anchors) ==
    IF anchors = <<>> THEN <<>>
    ELSE LET a == Head(anchors)
         IN  (IF ~IsNone(a.href) /\ IsJobHref(Val(a.href))
              THEN <<FullUrl(Val(a.href))>> ELSE <<>>) \o CollectUrls(Tail(anchors))

\* _extract_job_urls_from_list, lines 92-97: uniq and seen, one step of the loop per element
RECURSIVE DedupeLoop(_, _, _)
DedupeLoop(urls, uniq, seen) ==
    IF urls = <<>> THEN uniq
    ELSE LET u == Head(urls)
         IN  IF u \notin seen
             THEN DedupeLoop(Tail(urls), Append(uniq, u), seen \cup {u})
             ELSE DedupeLoop(Tail(urls), uniq, seen)

Reverse(q) == [k \in 1..Len(q) |-> q[Len(q) + 1 - k]]
\* a variant of Dedupe that keeps each URL at its last occurrence
DedupeKeepLast(urls) == Reverse(DedupeLoop(Reverse(urls), <<>>, {}))

Dedupe(urls) == DedupeLoop(urls, <<>>, {})

\* _extract_job_urls_from_list
ExtractJobUrls(body) == Dedupe(CollectUrls(body.anchors))

-----------------------------------------------------------------------------
(* Detail page.  A JSON value, as json.loads gives it, is a record with a   *)
(* tag t: "null" (Python None), "str" (s), "num" (n), "list" (l) or "dict"  *)
(* (d, a function from the keys present to JSON values).  A detail body is  *)
(* [scripts, h1, anchors, article]: the text of each ld+json script as      *)
(* json.loads reads it ([t |-> "invalid"] when it raises), the text of the  *)
(* first <h1>, the <a> elements, and the text of the first <article> or     *)
(* job/content <div>, the last three Optional.                              *)

JNull == [t |-> "null"]
JStr(s) == [t |-> "str", s |-> s]
JNum(n) == [t |-> "num", n |-> n]
JList(l) == [t |-> "list", l |-> l]
JDict(d) == [t |-> "dict", d |-> d]
JInvalid == [t |-> "invalid"]
EmptyDict == JDict([k \in {} |-> JNull])

IsDict(v) == v.t = "dict"
IsList(v) == v.t = "list"
IsStr(v) == v.t = "str"

\* bool(v)
Truthy(v) ==
    CASE v.t = "null" -> FALSE
      [] v.t = "str" -> v.s # EmptyStr
      [] v.t = "num" -> v.n # 0
      [] v.t = "list" -> v.l # <<>>
      [] v.t = "dict" -> DOMAIN v.d # {}
      [] OTHER -> FALSE

\* a or b
Or(a, b) == IF Truthy(a) THEN a ELSE b

\* d.get(k, default) of a dict d
GetD(v, k, default) == IF k \in DOMAIN v.d THEN v.d[k] ELSE default
\* d.get(k)
Get(v, k) == GetD(v, k, JNull)

\* v.get(...) raises AttributeError unless v is a dict
GetRaises(v) == ~IsDict(v)

JobPostingStr == <<"J","o","b","P","o","s","t","i","n","g">>

IsJobPosting(v) ==
    /\ IsDict(v)
    /\ LET ty == Get(v, "@type") IN IsStr(ty) /\ ty.s = JobPostingStr

\* _first_json: None is an Optional
FirstJson(script) ==
    IF IsDict(script) THEN Some(script)
    ELSE IF IsList(script) THEN FirstAt(script.l, {k \in 1..Len(script.l) : IsDict(script.l[k])})
    ELSE None

\* _pick_jobposting, lines 117-128: what one script yields, as an Optional
PickFromScript(script) ==
    LET data == FirstJson(script)
    IN  IF IsNone(data) THEN None
        ELSE IF IsJobPosting(Val(data)) THEN data
        ELSE LET graph == Get(Val(data), "@graph")
             IN  IF IsList(graph) THEN FirstAt(graph.l, {k \in 1..Len(graph.l) : IsJobPosting(graph.l[k])}) ELSE None

\* _pick_jobposting
RECURSIVE PickJobPosting(_)
PickJobPosting(scripts) ==
    IF scripts = <<>> THEN None
    ELSE LET hit == PickFromScript(Head(scripts))
         IN  IF ~IsNone(hit) THEN hit ELSE PickJobPosting(Tail(scripts))

\* re.sub(r"\s+", " ", s)
RECURSIVE CollapseWs(_)
CollapseWs(s) ==
    IF s = <<>> THEN <<>>
    ELSE IF Head(s) \in WS
         THEN <<" ">> \o CollapseWs(LStrip(s))
         ELSE <<Head(s)>> \o CollapseWs(Tail(s))

\* str(x) of a JSON value: a str is itself, a number its digits; the repr of a
\* list or dict is a non-empty str the model does not spell out
StrOf(v) ==
    CASE v.t = "str" -> v.s
      [] v.t = "num" -> FormatInt(v.n)
      [] v.t = "list" -> <<"[",".",".",".","]">>
      [] OTHER -> <<"{",".",".",".","}">>

\* _clean_text: an Optional str
CleanText(v) ==
    IF v.t = "null" THEN None
    ELSE LET c == Strip(CollapseWs(StrOf(v)))
         IN  IF c = EmptyStr THEN None ELSE Some(c)

\* re.match(r"(\d{4}-\d{2}-\d{2})", d)
IsoDatePrefix(d) ==
    /\ Len(d) >= 10
    /\ \A k \in {1, 2, 3, 4, 6, 7, 9, 10} : IsDigit(d[k])
    /\ d[5] = "-"
    /\ d[8] = "-"

\* _norm_date of an Optional str
NormDate(d) ==
    IF IsNone(d) \/ Val(d) = EmptyStr THEN None
    ELSE IF IsoDatePrefix(Val(d)) THEN Some(SubSeq(Val(d), 1, 10))
    ELSE d

\* BeautifulSoup(markup, "html.parser").get_text(separator=" "): the text nodes of the
\* markup (the runs outside <...>), joined by one space
RECURSIVE TextNodes(_, _, _)
TextNodes(s, cur, inTag) ==
    IF s = <<>> THEN (IF cur = <<>> THEN <<>> ELSE <<cur>>)
    ELSE IF inTag THEN TextNodes(Tail(s), <<>>, Head(s) # ">")
    ELSE IF Head(s) = "<"
         THEN (IF cur = <<>> THEN <<>> ELSE <<cur>>) \o TextNodes(Tail(s), <<>>, TRUE)
         ELSE TextNodes(Tail(s), Append(cur, Head(s)), FALSE)

RECURSIVE JoinSpace(_)
JoinSpace(parts) ==
    IF parts = <<>> THEN <<>>
    ELSE IF Len(parts) = 1 THEN parts[1]
    ELSE parts[1] \o <<" ">> \o JoinSpace(Tail(parts))

GetText(markup) == JoinSpace(TextNodes(markup, <<>>, FALSE))

MoreInfo == <<"m","o","r","e"," ","i","n","f","o">>
Apply == <<"a","p","p","l","y">>
Remote == <<"r","e","m","o","t","e">>

\* soup.find("a", string=re.compile(r"(More info|Apply)", re.I))
IsApplyAnchor(a) == Contains(Lower(a.text), MoreInfo) \/ Contains(Lower(a.text), Apply)

\* job_details, line 151
JobOf(body) ==
    LET picked == PickJobPosting(body.scripts)
    IN  IF ~IsNone(picked) /\ Truthy(Val(picked)) THEN Val(picked) ELSE EmptyDict

\* job_details, line 153
TitleOf(body, job) ==
    LET t == CleanText(Get(job, "title"))
    IN  IF ~IsNone(t) THEN t
        ELSE IF ~IsNone(body.h1) THEN CleanText(JStr(Val(body.h1))) ELSE None

\* job_details, line 154
OrgOf(job) == Or(Get(job, "hiringOrganization"), EmptyDict)
\* job_details, line 158: job.get("hiringOrganization", {})
ApplyOrgOf(job) == GetD(job, "hiringOrganization", EmptyDict)

\* job_details, lines 169-171
LocOf(job) ==
    LET loc == Get(job, "jobLocation")
    IN  IF IsList(loc) /\ loc.l # <<>> THEN loc.l[1] ELSE loc
\* job_details, line 173
AddrOf(loc) == GetD(loc, "address", EmptyDict)

\* job_details: the AttributeError of a .get on a value that is not a dict
\* (lines 155-156, 158, 174-175), as an Optional exception
DetailsRaises(job) ==
    IF \/ GetRaises(OrgOf(job))
       \/ GetRaises(ApplyOrgOf(job))
       \/ (IsDict(LocOf(job)) /\ GetRaises(AddrOf(LocOf(job))))
    THEN Some("AttributeError")
    ELSE None

\* job_details, lines 158-163
ApplyUrlOf(body, job) ==
    LET fromLd == CleanText(Or(Or(Get(ApplyOrgOf(job), "url"), Get(job, "applicationContact")),
                               Get(job, "url")))
        anchor == FirstAt(body.anchors, {k \in 1..Len(body.anchors) : IsApplyAnchor(body.anchors[k])})
    IN  IF ~IsNone(fromLd) THEN fromLd
        ELSE IF ~IsNone(anchor) /\ ~IsNone(Val(anchor).href) /\ Val(Val(anchor).href) # EmptyStr
             THEN Some(FullUrl(Val(Val(anchor).href)))
             ELSE None

\* job_details, lines 166-176
LocationLabelOf(job) ==
    LET loc == LocOf(job)
    IN  IF IsDict(loc)
        THEN LET city == CleanText(Get(AddrOf(loc), "addressLocality"))
             IN  IF ~IsNone(city) THEN city ELSE CleanText(Get(loc, "name"))
        ELSE None

CountryOf(job) ==
    LET loc == LocOf(job)
    IN  IF IsDict(loc) THEN CleanText(Get(AddrOf(loc), "addressCountry")) ELSE None

\* job_details, lines 168, 178-181: an Optional bool
RemoteOf(job) ==
    LET label == LocationLabelOf(job)
    IN  IF \/ Truthy(Get(job, "applicantLocationRequirements"))
           \/ (~IsNone(label) /\ Contains(Lower(Val(label)), Remote))
           \/ (~IsNone(label) /\ Upper(Val(label)) = Upper(Remote))
        THEN Some(TRUE)
        ELSE None

\* job_details, lines 187-189: an Optional str (the model draws no description that
\* is neither a str nor null)
DescriptionHtmlOf(job) ==
    LET d == Get(job, "description")
    IN  IF d.t = "null" THEN None
        ELSE IF Truthy(d) /\ IsStr(d) THEN Some(Strip(d.s))
        ELSE Some(StrOf(d))

\* job_details, lines 191-199
DescriptionTextOf(body, job) ==
    LET h == DescriptionHtmlOf(job)
    IN  IF ~IsNone(h) /\ Val(h) # EmptyStr THEN Some(Strip(GetText(Val(h))))
        ELSE IF ~IsNone(body.article) THEN Some(Strip(Val(body.article)))
        ELSE None

\* job_details, lines 147-218, after the fetch: the record, or the exception raised
ExtractDetails(body, job_url) ==
    LET job == JobOf(body)
        exc == DetailsRaises(job)
    IN  IF ~IsNone(exc) THEN [kind |-> "exc", exc |-> Val(exc)]
        ELSE LET title == TitleOf(body, job)
                 org == OrgOf(job)
             IN  [kind |-> "record",
                  id |-> SlugFromUrl(job_url),
                  title |-> IF IsNone(title) THEN EmptyStr ELSE Val(title),
                  company_name |-> CleanText(Get(org, "name")),
                  company_website |-> CleanText(Or(Get(org, "sameAs"), Get(org, "url"))),
                  category |-> CleanText(Get(job, "occupationalCategory")),
                  country |-> CountryOf(job),
                  employment_type |-> CleanText(Get(job, "employmentType")),
                  location_label |-> LocationLabelOf(job),
                  remote |-> RemoteOf(job),
                  awwwards_url |-> job_url,
                  apply_url |-> ApplyUrlOf(body, job),
                  posted_at |-> NormDate(CleanText(Get(job, "datePosted"))),
                  posted_at_relative |-> None,
                  description_text |-> DescriptionTextOf(body, job),
                  description_html |-> DescriptionHtmlOf(job)]

-----------------------------------------------------------------------------
(* The remote site, as the models see it *)

\* httpx.HTTPError: what retry_if_exception_type(httpx.HTTPError) retries
HTTPErrors == {"ConnectError", "ReadTimeout", "HTTPStatusError"}
\* an exception of client.get that is no httpx.HTTPError (a URL httpx cannot request)
OtherErrors == {"InvalidURL"}
\* the failure of a GET in the batch model (one kind: the batch does not tell them apart)
BatchErrors == {"HTTPStatusError"}

\* the permit counts a scraper is constructed with: contended ones, and the default
DEFAULT_CONCURRENCY == 5
PermitCounts == {1, 2, DEFAULT_CONCURRENCY}
\* routes.py, line 25: page defaults to 1
DEFAULT_PAGE == 1

Slug(i) == <<"j">> \o FormatInt(i)
NextText == <<"N","e","x","t">>

JobAnchor(i) ==
    [href |-> Some(IF i % 2 = 1 THEN JobsSlash \o Slug(i) \o DotHtml
                   ELSE JOBS_BASE \o Slug(i) \o DotHtml),
     text |-> Slug(i), rel |-> <<>>]

\* a listing page of n jobs: the job anchors, the first job linked once more by its
\* absolute URL, and a Next link to the following page
BatchListing(n, pg) ==
    [anchors |-> [i \in 1..n |-> JobAnchor(i)]
                 \o (IF n >= 1
                     THEN <<[href |-> Some(JOBS_BASE \o Slug(1) \o DotHtml),
                             text |-> Slug(1), rel |-> <<>>]>>
                     ELSE <<>>)
                 \o <<[href |-> Some(<<"?">> \o PageEq \o FormatInt(pg + 1)),
                       text |-> NextText, rel |-> <<>>]>>,
     texts |-> <<>>]

Designer == <<"D","e","s","i","g","n","e","r">>
IsoStamp == <<"2","0","2","4","-","0","5","-","0","1","T","1","0",":","0","0",":","0","0","Z">>

NoFields == [k \in {} |-> JNull]
\* a key of a JSON object literal, left out when the value is the marker "absent"
Field(k, v) == IF v.t = "absent" THEN NoFields ELSE (k :> v)
JAbsent == [t |-> "absent"]

LdJob(fields) == JDict(("@type" :> JStr(JobPostingStr)) @@ fields)

Page(scripts, h1) == [scripts |-> scripts, h1 |-> h1, anchors |-> <<>>, article |-> None]

\* detail pages of the batch model: a complete posting, and a posting whose
\* hiringOrganization is null
GoodBody == Page(<<LdJob([title |-> JStr(Designer), datePosted |-> JStr(IsoStamp)])>>, None)
NullOrgBody == Page(<<LdJob([title |-> JStr(Designer), hiringOrganization |-> JNull])>>, None)
BlankBody == Page(<<>>, None)

BatchDetailBodies == {GoodBody, NullOrgBody}

-----------------------------------------------------------------------------
(* Text fetcher: _get_text under its tenacity decorator *)

STOP_AFTER_ATTEMPT == 3

Ok(body) == [ok |-> TRUE, body |-> body]
Err(e) == [ok |-> FALSE, err |-> e]

Calls == 0..MaxJobs

IdleCall == [st |-> "idle", attempt |-> 0, outcome |-> None, ret |-> None]
\* a call of _get_text: its first attempt waits for a permit
NewCall == [st |-> "waiting", attempt |-> 1, outcome |-> None, ret |-> None]

\* a variant of RetryPolicy that stops one attempt late
RetryPolicyOneMore(attempt, o) ==
    IF o.ok THEN [act |-> "return", val |-> o.body]
    ELSE IF o.err \in HTTPErrors /\ attempt <= STOP_AFTER_ATTEMPT THEN [act |-> "retry", val |-> o.err]
    ELSE [act |-> "raise", val |-> o.err]

\* tenacity, lines 24-29, after the attempt of number attempt ended with outcome o:
\* return its result, retry, or re-raise its exception (reraise=True)
RetryPolicy(attempt, o) ==
    IF o.ok THEN [act |-> "return", val |-> o.body]
    ELSE IF o.err \in HTTPErrors /\ attempt < STOP_AFTER_ATTEMPT THEN [act |-> "retry", val |-> o.err]
    ELSE [act |-> "raise", val |-> o.err]

\* the call after an attempt ended with outcome o (retry_state.outcome keeps it); a call
\* that is over has no attempt counter any more
AfterAttempt(c, o) ==
    LET d == RetryPolicy(c.attempt, o)
    IN  CASE d.act = "return" ->
               [st |-> "returned", attempt |-> 0, outcome |-> Some(o), ret |-> Some(d.val)]
          [] d.act = "raise" ->
               [st |-> "raised", attempt |-> 0, outcome |-> Some(o), ret |-> Some(d.val)]
          [] OTHER -> [c EXCEPT !.st = "backoff", !.outcome = Some(o)]

\* a variant of CanAcquire that lets an attempt through when no permit is left
CanAcquireOneMore == sem >= 0
\* a variant of Released that keeps the permit
ReleasedNever == sem

\* async with self._sem, line 31: __aenter__ takes a permit when one is free
CanAcquire == sem > 0
\* async with self._sem: __aexit__ gives the permit back, on return and on raise alike
Released == sem + 1

\* line 31: an attempt takes a permit and issues its GET (line 32).  asyncio wakes the
\* waiters of a semaphore in FIFO order; the model lets any waiting attempt go first.
Acquire(c) ==
    /\ call[c].st = "waiting"
    /\ CanAcquire
    /\ sem' = sem - 1
    /\ call' = [call EXCEPT ![c].st = "inflight"]
    /\ UNCHANGED <<concurrency, route, pc, page, html, meta, job_urls, results, returned, response>>

\* the wait of wait_exponential between two attempts is over: the next attempt begins
BackoffDone(c) ==
    /\ call[c].st = "backoff"
    /\ call' = [call EXCEPT ![c].st = "waiting", ![c].attempt = @ + 1]
    /\ UNCHANGED <<concurrency, sem, route, pc, page, html, meta, job_urls, results, returned, response>>

-----------------------------------------------------------------------------
(* GET /jobs with include=details: get_jobs and list_with_details *)

Jobs == 1..Len(job_urls)

\* routes.py, lines 57-60: the error response for an exception of the pipeline
JobsError(exc) ==
    IF exc = "ScrapeError"
    THEN [status |-> 503, error |-> "source_unreachable", message |-> exc, data |-> <<>>, meta |-> None]
    ELSE [status |-> 500, error |-> "scrape_failed", message |-> exc, data |-> <<>>, meta |-> None]

\* the characters of the model in code point order, for str comparison
CodeOrder == <<" ","-",".","/","0","1","2","3","4","5","6","7","8","9",":","?","A","B","C","D","E","F","G","H","I","J","K","L","M","N","O","P","Q","R","S","T","U","V","W","X","Y","Z","_","a","b","c","d","e","f","g","h","i","j","k","l","m","n","o","p","q","r","s","t","u","v","w","x","y","z">>
CodePoint(c) == CHOOSE i \in 1..Len(CodeOrder) : CodeOrder[i] = c

\* a < b of two str
RECURSIVE StrLess(_, _)
StrLess(a, b) ==
    IF b = <<>> THEN FALSE
    ELSE IF a = <<>> THEN TRUE
    ELSE IF Head(a) = Head(b) THEN StrLess(Tail(a), Tail(b))
    ELSE CodePoint(Head(a)) < CodePoint(Head(b))

PostedAt == <<"p","o","s","t","e","d","_","a","t">>
\* the sort query parameter: pattern ^-?posted_at$, Optional
Sorts == {None, Some(PostedAt), Some(<<"-">> \o PostedAt)}

RECURSIVE LStripDash(_)
LStripDash(s) == IF s # <<>> /\ Head(s) = "-" THEN LStripDash(Tail(s)) ELSE s

\* a variant of SortKey in which a missing date compares above every date
SortKeyMissingHigh(x) == IF IsNone(x.posted_at) THEN <<"z">> ELSE Val(x.posted_at)

\* the sort key of line 45: x.get("posted_at") or ""
SortKey(x) == IF IsNone(x.posted_at) THEN EmptyStr ELSE Val(x.posted_at)

\* whether x goes before y in list.sort(key=SortKey, reverse=reverse)
Before(x, y, reverse) ==
    IF reverse THEN StrLess(SortKey(y), SortKey(x)) ELSE StrLess(SortKey(x), SortKey(y))

\* list.sort is stable, with reverse too: x goes after the elements it does not go before
RECURSIVE InsertSorted(_, _, _)
InsertSorted(sorted, x, reverse) ==
    IF sorted = <<>> THEN <<x>>
    ELSE IF Before(x, Head(sorted), reverse) THEN <<x>> \o sorted
    ELSE <<Head(sorted)>> \o InsertSorted(Tail(sorted), x, reverse)

RECURSIVE ListSort(_, _)
ListSort(data, reverse) ==
    IF data = <<>> THEN <<>>
    ELSE InsertSorted(ListSort(SubSeq(data, 1, Len(data) - 1), reverse), data[Len(data)], reverse)

\* get_jobs, lines 41-45
SortData(data, sort) ==
    IF ~IsNone(sort) /\ Val(sort) # EmptyStr /\ data # <<>>
    THEN IF LStripDash(Val(sort)) = PostedAt
         THEN ListSort(data, StartsWith(Val(sort), <<"-">>))
         ELSE data
    ELSE data

\* get_jobs, lines 41-56: the response for what list_with_details returned
JobsResponse(ret, sort) ==
    [status |-> 200, error |-> "", message |-> "", data |-> SortData(ret.data, sort),
     meta |-> Some([source |-> SOURCE_URL, page |-> page, has_next |-> ret.meta.has_next,
                    next_page |-> ret.meta.next_page, total_text |-> ret.meta.total_text])]

\* a variant of KeepRecords in which one exception empties the batch
KeepRecordsOrAbort(res) ==
    IF \E k \in 1..Len(res) : res[k].kind = "exc" THEN <<>> ELSE res

\* list_with_details, lines 229-235: the results that are no exception, in their order
RECURSIVE KeepRecords(_)
KeepRecords(res) ==
    IF res = <<>> THEN <<>>
    ELSE (IF Head(res).kind = "exc" THEN <<>> ELSE <<Head(res)>>) \o KeepRecords(Tail(res))

\* get_jobs, lines 33-38, into list_with_details and list_page up to the fetch of line 55
GetJobsStart ==
    /\ pc = "start"
    /\ route.name = "get_jobs"
    /\ call' = [call EXCEPT ![0] = NewCall]
    /\ pc' = "list_page"
    /\ UNCHANGED <<concurrency, sem, route, page, html, meta, job_urls, results, returned, response>>

\* get_jobs, lines 41-56, once list_with_details has returned ret: the handler reads
\* the sort parameter (recorded in route) and answers
GetJobsAnswers(ret) ==
    \E sort \in Sorts :
        /\ route' = [route EXCEPT !.sort = sort]
        /\ response' = Some(JobsResponse(ret, sort))
        /\ pc' = "done"

\* the listing bodies of the batch, and list_page (57-80) with
\* _extract_job_urls_from_list (222) on each of them, computed once per body
BatchListings == {BatchListing(n, DEFAULT_PAGE) : n \in 0..MaxJobs}
ListPageOf ==
    [b \in BatchListings |-> [meta |-> PageMeta(b, DEFAULT_PAGE), urls |-> ExtractJobUrls(b)]]

\* the job URLs of the batch, and job_details (147-218) on each detail body for each of
\* them, computed once per body and URL
BatchJobUrls ==
    UNION {{ListPageOf[b].urls[k] : k \in 1..Len(ListPageOf[b].urls)} : b \in BatchListings}
JobDetailsOf ==
    [b \in BatchDetailBodies |-> [u \in BatchJobUrls |-> ExtractDetails(b, u)]]

\* what the remote may answer to the GET of the listing page
ListingAnswers == {Ok(b) : b \in BatchListings} \cup {Err(e) : e \in BatchErrors}

\* what the remote may answer to the GET of a detail page of the batch
DetailAnswers == {Ok(b) : b \in BatchDetailBodies} \cup {Err(e) : e \in BatchErrors}

\* list_with_details, lines 221-227, once list_page has the listing body: the meta
\* (57-80) and the job URLs (222); with none it returns at once (223-224) and get_jobs
\* answers, otherwise one job_details task per URL is started (226-227)
ListingFetched(c) ==
    LET m == ListPageOf[Val(c.ret)].meta
        urls == ListPageOf[Val(c.ret)].urls
    IN  /\ html' = c.ret
        /\ meta' = Some(m)
        /\ job_urls' = urls
        /\ IF urls = <<>>
           THEN /\ call' = [call EXCEPT ![0] = c]
                /\ returned' = Some([data |-> <<>>, meta |-> m])
                /\ GetJobsAnswers([data |-> <<>>, meta |-> m])
                /\ UNCHANGED results
           ELSE /\ call' = [k \in Calls |->
                              IF k = 0 THEN c ELSE IF k <= Len(urls) THEN NewCall ELSE call[k]]
                /\ results' = [k \in 1..Len(urls) |-> None]
                /\ pc' = "gather"
                /\ UNCHANGED <<route, returned, response>>

\* an attempt of the listing fetch ends (lines 32-36): _get_text returns and the
\* request goes on, or retries, or raises and get_jobs answers the error (57-60)
ListingAttemptEnds ==
    /\ pc = "list_page"
    /\ call[0].st = "inflight"
    /\ sem' = Released
    /\ \E o \in ListingAnswers :
         LET c == AfterAttempt(call[0], o)
         IN  CASE c.st = "returned" -> ListingFetched(c)
               [] c.st = "raised" ->
                    /\ call' = [call EXCEPT ![0] = c]
                    /\ response' = Some(JobsError(Val(c.ret)))
                    /\ pc' = "done"
                    /\ UNCHANGED <<route, html, meta, job_urls, results, returned>>
               [] OTHER ->
                    /\ call' = [call EXCEPT ![0] = c]
                    /\ UNCHANGED <<route, pc, html, meta, job_urls, results, returned, response>>
    /\ UNCHANGED <<concurrency, page>>

\* the result of a job_details task whose fetch has ended as c says: the exception
\* raised by the fetch, or what the extraction of lines 147-218 gives
TaskResult(c, job_url) ==
    IF c.st = "raised" THEN [kind |-> "exc", exc |-> Val(c.ret)]
    ELSE ExtractDetails(Val(c.ret), job_url)

\* the same for a task of the batch, the extraction read from JobDetailsOf
GatheredResult(c, job_url) ==
    IF c.st = "raised" THEN [kind |-> "exc", exc |-> Val(c.ret)]
    ELSE JobDetailsOf[Val(c.ret)][job_url]

\* an attempt of the detail fetch of job i ends; on a return or a raise the task is done
\* and gather keeps its record or its exception in slot i (return_exceptions=True)
DetailAttemptEnds(i) ==
    /\ pc = "gather"
    /\ i \in Jobs
    /\ call[i].st = "inflight"
    /\ sem' = Released
    /\ \E o \in DetailAnswers :
         LET c == AfterAttempt(call[i], o)
         IN  /\ call' = [call EXCEPT ![i] = c]
             /\ results' = IF c.st \in {"returned", "raised"}
                           THEN [results EXCEPT ![i] = Some(GatheredResult(c, job_urls[i]))]
                           ELSE results
    /\ UNCHANGED <<concurrency, route, pc, page, html, meta, job_urls, returned, response>>

\* every task is done: gather returns the slots in the order of job_urls (227),
\* list_with_details drops the exceptions (229-235) and get_jobs answers (41-56)
GatherReturns ==
    /\ pc = "gather"
    /\ \A i \in Jobs : ~IsNone(results[i])
    /\ LET ret == [data |-> KeepRecords([i \in Jobs |-> Val(results[i])]), meta |-> Val(meta)]
       IN  /\ returned' = Some(ret)
           /\ GetJobsAnswers(ret)
    /\ UNCHANGED <<concurrency, sem, page, call, html, meta, job_urls, results>>

\* the state of a request before its handler runs
Fresh ==
    /\ sem = concurrency
    /\ page = DEFAULT_PAGE
    /\ call = [c \in Calls |-> IdleCall]
    /\ html = None
    /\ meta = None
    /\ job_urls = <<>>
    /\ results = <<>>
    /\ returned = None
    /\ response = None

Init ==
    /\ concurrency \in PermitCounts
    /\ route = [name |-> "get_jobs", id |-> EmptyStr, sort |-> None]
    /\ pc = "start"
    /\ Fresh

Next ==
    \/ GetJobsStart
    \/ \E c \in Calls : Acquire(c)
    \/ \E c \in Calls : BackoffDone(c)
    \/ ListingAttemptEnds
    \/ \E i \in 1..MaxJobs : DetailAttemptEnds(i)
    \/ GatherReturns

Spec == Init /\ [][Next]_vars

\* the event loop runs whatever can run, and every GET ends (with its timeout at the latest)
FairSpec == Spec /\ WF_vars(Next)

-----------------------------------------------------------------------------
(* GET /jobs/{id}: get_job_by_id *)

Acme == <<"A","c","m","e">>
AcmeUrl == <<"h","t","t","p","s",":","/","/","a","c","m","e",".","e","x","a","m","p","l","e">>
Berlin == <<"B","e","r","l","i","n">>
JobTitle == <<"J","o","b"," ","t","i","t","l","e">>
Address == JDict([addressCountry |-> JStr(<<"D","E">>), addressLocality |-> JStr(Berlin)])

\* the shapes of the fields of a posting that the detail pages of the model take
TitleVals == {JAbsent, JNull, JStr(Designer), JStr(<<" ">>)}
H1Vals == {None, Some(JobTitle)}
OrgVals == {JAbsent, JNull, JStr(Acme), EmptyDict,
            JDict([name |-> JStr(Acme), url |-> JStr(AcmeUrl)])}
LocVals == {JAbsent, JNull,
            JDict([name |-> JStr(<<"R","E","M","O","T","E">>)]),
            JDict([address |-> JNull]),
            JDict([address |-> JStr(Berlin)]),
            JDict([address |-> Address]),
            JList(<<JDict([address |-> Address, name |-> JStr(Berlin)])>>)}
DateVals == {JAbsent, JStr(IsoStamp), JStr(<<"M","a","y"," ","1">>)}

Posting(title, org, loc, date) ==
    LdJob(Field("title", title) @@ Field("hiringOrganization", org)
          @@ Field("jobLocation", loc) @@ Field("datePosted", date))

GoodJob == Posting(JStr(Designer), JAbsent, JAbsent, JStr(IsoStamp))
WebPage == JDict("@type" :> JStr(<<"W","e","b","P","a","g","e">>))

\* the ways a page carries (or fails to carry) its structured data
ScriptVals ==
    {<<>>, <<JInvalid>>, <<JInvalid, GoodJob>>, <<JNum(1)>>, <<WebPage>>,
     <<JList(<<JStr(Acme), GoodJob>>)>>,
     <<JDict(("@type" :> JStr(<<"W","e","b","P","a","g","e">>))
             @@ ("@graph" :> JList(<<WebPage, GoodJob>>)))>>}

\* a posting with a description, on a page with an apply link and an article
RichBody ==
    [scripts |-> <<LdJob([title |-> JStr(Designer),
                          description |-> JStr(<<"<","p",">","H","i","<","/","p",">","<","p",">","t","h","e","r","e","<","/","p",">">>),
                          employmentType |-> JStr(<<"F","u","l","l"," "," ","t","i","m","e">>)])>>,
     h1 |-> Some(JobTitle),
     anchors |-> <<[href |-> Some(<<"/","a","p","p","l","y">>),
                    text |-> <<"M","o","r","e"," ","i","n","f","o">>, rel |-> <<>>]>>,
     article |-> Some(<<" ","H","i"," ">>)]

DetailBodies ==
    {Page(<<Posting(t, o, l, d)>>, h) :
        t \in TitleVals, o \in OrgVals, l \in LocVals, d \in DateVals, h \in H1Vals}
    \cup {Page(sc, h) : sc \in ScriptVals, h \in H1Vals}
    \cup {RichBody}

\* the id path parameters of the model
JobIds == {<<"a">>, <<"u","x","-","d","e","s","i","g","n","e","r">>}

\* get_job_by_id, line 65
JobUrlOfId(id) == JOBS_BASE \o id \o DotHtml

\* get_job_by_id, lines 70-76: the response for what job_details gave
ByIdResponse(details) ==
    IF details.kind = "exc"
    THEN [status |-> 500, error |-> "scrape_failed", message |-> details.exc, data |-> <<>>, meta |-> None]
    ELSE IF details.title = EmptyStr
    THEN [status |-> 404, error |-> "not_found", message |-> "Job not found", data |-> <<>>, meta |-> None]
    ELSE [status |-> 200, error |-> "", message |-> "", data |-> <<details>>, meta |-> None]

\* get_job_by_id, lines 64-69, into job_details up to the fetch of line 146
GetJobByIdStart ==
    /\ pc = "start"
    /\ route.name = "get_job_by_id"
    /\ call' = [call EXCEPT ![0] = NewCall]
    /\ pc' = "job_details"
    /\ UNCHANGED <<concurrency, sem, route, page, html, meta, job_urls, results, returned, response>>

\* what the remote may answer to the GET of the detail page
ByIdAnswers == {Ok(b) : b \in DetailBodies} \cup {Err(e) : e \in HTTPErrors \cup OtherErrors}

\* an attempt of the detail fetch ends; on a return job_details extracts the record
\* (147-218) and the handler answers (70-72), on a raise it answers the error (75-76)
ByIdAttemptEnds ==
    /\ pc = "job_details"
    /\ call[0].st = "inflight"
    /\ sem' = Released
    /\ \E o \in ByIdAnswers :
         LET c == AfterAttempt(call[0], o)
         IN  /\ call' = [call EXCEPT ![0] = c]
             /\ IF c.st \in {"returned", "raised"}
                THEN LET details == TaskResult(c, JobUrlOfId(route.id))
                     IN  /\ returned' = Some(details)
                         /\ response' = Some(ByIdResponse(details))
                         /\ pc' = "done"
                ELSE UNCHANGED <<returned, response, pc>>
    /\ UNCHANGED <<concurrency, route, page, html, meta, job_urls, results>>

InitById ==
    /\ concurrency = DEFAULT_CONCURRENCY
    /\ route \in {[name |-> "get_job_by_id", id |-> i, sort |-> None] : i \in JobIds}
    /\ pc = "start"
    /\ Fresh

NextById ==
    \/ GetJobByIdStart
    \/ Acquire(0)
    \/ BackoffDone(0)
    \/ ByIdAttemptEnds

SpecById == InitById /\ [][NextById]_vars

-----------------------------------------------------------------------------
(* The listing parser on the listing bodies of the model *)

SeqsUpTo(S, n) == UNION {[1..k -> S] : k \in 0..n}

Anchor(href, text, rel) == [href |-> href, text |-> text, rel |-> rel]
HrefA == <<"/","j","o","b","s","/","a",".","h","t","m","l">>
HrefB == <<"/","j","o","b","s","/","b",".","h","t","m","l">>
Home == <<"H","o","m","e">>

AnchorSamples ==
    {Anchor(Some(HrefA), <<"a">>, <<>>),
     Anchor(Some(JOBS_BASE \o <<"a",".","h","t","m","l">>), <<"a">>, <<>>),
     Anchor(Some(HrefB), <<"b">>, <<>>),
     Anchor(Some(HrefB \o <<"?","r","e","f","=","1">>), <<"b">>, <<>>),
     Anchor(Some(<<"/","b","l","o","g","/","a",".","h","t","m","l">>), Home, <<>>),
     Anchor(None, NextText, <<>>),
     Anchor(Some(<<"?","p","a","g","e","=","3">>), NextText, <<>>),
     Anchor(Some(JobsSlash), <<" ","n","e","x","t","\n">>, <<>>),
     Anchor(Some(<<"/","j","o","b","s","/","?","q","=","1","&","p","a","g","e","=","1","2">>),
            Home, <<<<"n","o","f","o","l","l","o","w">>, NextWord>>)}

TextSamples ==
    {<<>>, <<Home, <<"1","2"," ","J","o","b"," ","O","p","p","o","r","t","u","n","i","t","i","e","s"," ","w","a","i","t","i","n","g","."," ">>>>}

ListingBodies ==
    {[anchors |-> a, texts |-> t] : a \in SeqsUpTo(AnchorSamples, MaxAnchors), t \in TextSamples}

\* list_page, lines 57-80, and _extract_job_urls_from_list on the body fetched
ParseListing ==
    /\ pc = "parse"
    /\ meta' = Some(PageMeta(Val(html), page))
    /\ job_urls' = ExtractJobUrls(Val(html))
    /\ pc' = "parsed"
    /\ UNCHANGED <<concurrency, sem, route, page, call, html, results, returned, response>>

InitListing ==
    /\ concurrency = DEFAULT_CONCURRENCY
    /\ sem = concurrency
    /\ route = [name |-> "list_page", id |-> EmptyStr, sort |-> None]
    /\ pc = "parse"
    /\ page \in 1..MaxPage
    /\ call = [c \in Calls |-> IdleCall]
    /\ html \in {Some(b) : b \in ListingBodies}
    /\ meta = None
    /\ job_urls = <<>>
    /\ results = <<>>
    /\ returned = None
    /\ response = None

SpecListing == InitListing /\ [][ParseListing]_vars

-----------------------------------------------------------------------------
(* The sort of get_jobs on the records of the model *)

DateSamples ==
    {None, Some(<<"2","0","2","4","-","0","1","-","0","1">>),
     Some(<<"2","0","2","4","-","0","3","-","0","1">>), Some(<<"M","a","y"," ","1">>)}

\* the record of job i of a listing, with the posted_at given
SortRecord(i, d) ==
    [ExtractDetails(BlankBody, JOBS_BASE \o Slug(i) \o DotHtml) EXCEPT !.posted_at = d]

SortInputs ==
    UNION {{[i \in 1..n |-> SortRecord(i, d[i])] : d \in [1..n -> DateSamples]} : n \in 0..MaxRecords}

NoNextMeta == [has_next |-> FALSE, next_page |-> None, total_text |-> None]

\* get_jobs, lines 41-56, on what list_with_details returned
GetJobsResponds ==
    /\ pc = "respond"
    /\ GetJobsAnswers(Val(returned))
    /\ UNCHANGED <<concurrency, sem, page, call, html, meta, job_urls, results, returned>>

InitSort ==
    /\ concurrency = DEFAULT_CONCURRENCY
    /\ sem = concurrency
    /\ route = [name |-> "get_jobs", id |-> EmptyStr, sort |-> None]
    /\ pc = "respond"
    /\ page = DEFAULT_PAGE
    /\ call = [c \in Calls |-> IdleCall]
    /\ html = None
    /\ meta = Some(NoNextMeta)
    /\ job_urls = <<>>
    /\ results = <<>>
    /\ returned \in {Some([data |-> d, meta |-> NoNextMeta]) : d \in SortInputs}
    /\ response = None

SpecSort == InitSort /\ [][GetJobsResponds]_vars

-----------------------------------------------------------------------------
(* The claims *)

InFlight == {c \in Calls : call[c].st = "inflight"}

\* the jobs of the batch whose fetch returned a body and whose extraction gives a record
GoodJobs ==
    {i \in Jobs : call[i].st = "returned"
                  /\ ExtractDetails(Val(call[i].ret), job_urls[i]).kind = "record"}

\* C1: once GET /jobs has its listing page, list_with_details returns exactly one
\* record per job URL whose fetch and extraction both succeed, in the order of the job
\* URLs, each record what the extraction of that job's own body gives; the failing
\* jobs are absent and the request is answered 200 whatever the tasks did.
BatchKeepsGoodJobsInOrder ==
    (pc = "done" /\ call[0].st = "returned") =>
        /\ ~IsNone(returned)
        /\ Val(response).status = 200
        /\ Len(Val(returned).data) = Cardinality(GoodJobs)
        /\ \A i \in GoodJobs :
             LET k == Cardinality({j \in GoodJobs : j <= i})
             IN  /\ Val(returned).data[k] = ExtractDetails(Val(call[i].ret), job_urls[i])
                 /\ Val(returned).data[k].awwwards_url = job_urls[i]

\* three job URLs, the second failing after its retries: two records, the first and the third
BatchSecondOfThreeFails ==
    /\ pc = "done"
    /\ Len(job_urls) = 3
    /\ call[2].st = "raised"
    /\ ~IsNone(returned)
    /\ Len(Val(returned).data) = 2
    /\ Val(returned).data[1].awwwards_url = job_urls[1]
    /\ Val(returned).data[2].awwwards_url = job_urls[3]

\* C2: the GETs in flight through the scraper never outnumber its permits.
InFlightWithinPermits == Cardinality(InFlight) <= concurrency

\* every permit is taken and another attempt waits for one
PermitsExhausted ==
    /\ Cardinality(InFlight) = concurrency
    /\ \E c \in Calls : call[c].st = "waiting"
    /\ \E c \in Calls : call[c].st = "backoff"

HTTPFailure(oc) == ~IsNone(oc) /\ ~Val(oc).ok /\ Val(oc).err \in HTTPErrors

CallWithinPolicy(k) ==
    /\ k.attempt <= 3
    /\ k.st \in {"waiting", "inflight"} =>
         IF k.attempt = 1 THEN IsNone(k.outcome) ELSE HTTPFailure(k.outcome)
    /\ k.st = "backoff" => HTTPFailure(k.outcome)
    /\ k.st = "returned" => (Val(k.outcome).ok /\ k.ret = Some(Val(k.outcome).body))
    /\ k.st = "raised" => (~Val(k.outcome).ok /\ k.ret = Some(Val(k.outcome).err))

RaisesOnlyWhenOut(c) ==
    (call[c].st = "inflight" /\ call'[c].st = "raised" /\ Val(call'[c].ret) \in HTTPErrors)
        => call[c].attempt = 3

\* C3: a call of _get_text makes at most 3 attempts; a further attempt follows only an
\* HTTP-layer failure of the one before; the call returns the body of the attempt that
\* succeeded and raises the failure of its last attempt, an HTTP-layer one only when that
\* attempt was the 3rd.
GetTextThreeAttempts ==
    /\ [](\A c \in Calls : CallWithinPolicy(call[c]))
    /\ [][\A c \in Calls : RaisesOnlyWhenOut(c)]_vars

\* the fetch gave up on a timeout
GetTextGaveUp == call[0].st = "raised" /\ call[0].ret = Some("ReadTimeout")

\* C4: when the listing fetch of GET /jobs fails after its retries, the request is
\* answered source_unreachable with status 503 and no data.
ListingFailureIs503 ==
    (pc = "done" /\ call[0].st = "raised") =>
        /\ Val(response).status = 503
        /\ Val(response).error = "source_unreachable"
        /\ Val(response).data = <<>>

\* C5: for every detail body fetched, job_details returns a record and does not raise.
DetailsNeverRaise ==
    (pc = "done" /\ call[0].st = "returned") => Val(returned).kind = "record"

\* C6: when the detail fetch of GET /jobs/{id} succeeds, the answer is not_found (404)
\* if the extracted title is empty and the extracted record otherwise.
ByIdNotFoundOrRecord ==
    (pc = "done" /\ call[0].st = "returned") =>
        /\ Val(returned).kind = "record"
        /\ IF Val(returned).title = EmptyStr
           THEN Val(response).status = 404 /\ Val(response).error = "not_found"
           ELSE Val(response).status = 200 /\ Val(response).data = <<Val(returned)>>

\* the number N of a page=<N> query parameter of href, Optional: href holds "?page=" or
\* "&page=" followed by the digits of N
PageParamOf(href) ==
    LET ns == {n \in 0..20 : \/ Contains(href, <<"?">> \o PageEq \o FormatInt(n))
                             \/ Contains(href, <<"&">> \o PageEq \o FormatInt(n))}
    IN  IF ns = {} THEN None ELSE Some(CHOOSE n \in ns : \A m \in ns : m <= n)

\* C7: in the meta of list_page, next_page is null exactly when has_next is false; when
\* has_next is true it is the number of the next link's page=<N> parameter if the link
\* has one and the current page + 1 otherwise.
NextPageMatchesHasNext ==
    pc = "parsed" =>
        LET m == Val(meta)
            a == FindNextAnchor(Val(html))
        IN  /\ IsNone(m.next_page) <=> (m.has_next = FALSE)
            /\ m.has_next =>
                 /\ ~IsNone(a)
                 /\ ~IsNone(Val(a).href)
                 /\ LET p == PageParamOf(Val(Val(a).href))
                    IN  m.next_page = IF IsNone(p) THEN Some(page + 1) ELSE p

\* a next link found by its rel, with a page number of two digits
NextPageFromRelLink ==
    /\ pc = "parsed"
    /\ Val(meta).has_next
    /\ Val(meta).next_page = Some(12)

\* the str a record's posted_at compares as: a missing date as the empty str
DateOrEmpty(x) == IF IsNone(x.posted_at) THEN EmptyStr ELSE Val(x.posted_at)

\* C8: with sort=-posted_at the records answered are those returned, by posted_at
\* descending, the records without posted_at after all the dated ones; with
\* sort=posted_at ascending, the records without posted_at first.
SortedByPostedAt ==
    (pc = "done" /\ ~IsNone(route.sort)) =>
        LET out == Val(response).data
            inp == Val(returned).data
            desc == route.sort = Some(<<"-">> \o PostedAt)
        IN  /\ Len(out) = Len(inp)
            /\ {out[k] : k \in 1..Len(out)} = {inp[k] : k \in 1..Len(inp)}
            /\ \A i, j \in 1..Len(out) : i < j =>
                 IF desc
                 THEN /\ ~StrLess(DateOrEmpty(out[i]), DateOrEmpty(out[j]))
                      /\ IsNone(out[i].posted_at) => IsNone(out[j].posted_at)
                 ELSE /\ ~StrLess(DateOrEmpty(out[j]), DateOrEmpty(out[i]))
                      /\ IsNone(out[j].posted_at) => IsNone(out[i].posted_at)

Jan1 == <<"2","0","2","4","-","0","1","-","0","1">>
Mar1 == <<"2","0","2","4","-","0","3","-","0","1">>
PostedAts(data) == [k \in 1..Len(data) |-> data[k].posted_at]

\* 2024-01-01, no date, 2024-03-01 sorted by -posted_at
SortedDescendingNullLast ==
    /\ pc = "done"
    /\ route.sort = Some(<<"-">> \o PostedAt)
    /\ PostedAts(Val(returned).data) = <<Some(Jan1), None, Some(Mar1)>>
    /\ PostedAts(Val(response).data) = <<Some(Mar1), Some(Jan1), None>>

\* the index of the first occurrence of u in q
FirstIndex(q, u) == CHOOSE k \in 1..Len(q) : q[k] = u /\ \A m \in 1..(k - 1) : q[m] # u

\* C9: _extract_job_urls_from_list returns the resolved URLs of the qualifying anchors,
\* none twice, every one of them, in the order of their first occurrences in the markup.
JobUrlsUniqueFirstSeen ==
    pc = "parsed" =>
        LET resolved == CollectUrls(Val(html).anchors)
        IN  /\ \A i, j \in 1..Len(job_urls) : i # j => job_urls[i] # job_urls[j]
            /\ {job_urls[k] : k \in 1..Len(job_urls)} = {resolved[k] : k \in 1..Len(resolved)}
            /\ \A i, j \in 1..Len(job_urls) : i < j =>
                 FirstIndex(resolved, job_urls[i]) < FirstIndex(resolved, job_urls[j])

\* a job linked first by a relative and last by an absolute href, another job between
JobLinkedTwice ==
    /\ pc = "parsed"
    /\ Len(Val(html).anchors) = 3
    /\ \A k \in 1..3 : ~IsNone(Val(html).anchors[k].href)
    /\ Val(html).anchors[1].href # Val(html).anchors[3].href
    /\ Len(job_urls) = 2
    /\ job_urls[1] = FullUrl(Val(Val(html).anchors[1].href))
    /\ job_urls[1] = FullUrl(Val(Val(html).anchors[3].href))
    /\ job_urls[2] = FullUrl(Val(Val(html).anchors[2].href))

\* C10: a permit is held exactly by the attempts whose GET is in flight (none by a call
\* in backoff or over), the request ends, and every permit is free once it has.
PermitsHeldOnlyInFlight ==
    /\ [](sem = concurrency - Cardinality(InFlight))
    /\ [](pc = "done" => sem = concurrency)
    /\ <>(pc = "done")

\* a batch of more jobs than permits is over, some job having failed after a backoff
BatchOverPermitsFree ==
    /\ pc = "done"
    /\ Len(job_urls) > concurrency
    /\ sem = concurrency
    /\ \E i \in Jobs : call[i].st = "raised"
    /\ \E i \in Jobs : call[i].st = "returned"

=============================================================================
